---- MODULE Spec2Model ----
(***************************************************************************)
(* Micro-savings API: transaction derivation, validation, temporal rules,  *)
(* K-period aggregation and the /calculate pipeline.                       *)
(*                                                                         *)
(* Money is modelled in whole currency units (integers).  A date string is *)
(* modelled by an integer code: 0 is a text that does not match            *)
(* DATE_FORMAT, 2d-1 is the zero-padded text of instant d and 2d the       *)
(* non-padded text of the same instant (strptime accepts both, e.g.        *)
(* "2023-01-05 00:00:00" and "2023-1-5 0:0:0").  An optional value         *)
(* (Transaction | None) is a sequence of length at most one.               *)
(***************************************************************************)
EXTENDS Integers, Sequences, FiniteSets, TLC

VARIABLES
    pc,                  \* position of the running handler
    handler,             \* which endpoint / helper is running
    expenses,            \* request.expenses
    q_periods,           \* request.q
    p_periods,           \* request.p
    k_periods,           \* request.k
    age,                 \* request.age
    wage,                \* request.wage (monthly)
    inflation,           \* request.inflation, in percent
    transaction,         \* apply_temporal_rules: the transaction argument
    updated,             \* apply_temporal_rules: the returned (transaction, error) pair
    transactions,        \* the transaction list a handler works on (parsed)
    seen_dates,          \* validator: set of date texts seen
    valid,               \* validator: accepted transactions (valid_txns)
    invalid,             \* validator: rejected transactions (invalid_from_validation)
    filtered_txns,       \* transactions after the temporal rules
    invalid_from_filter, \* transactions rejected by the temporal rules
    savings,             \* group_savings_by_k: the returned bucket list
    t_years,             \* calculate_time: the returned horizon
    heap,                \* the SavingsByDate objects allocated so far, by address
    proj,                \* per vehicle: the frame of its _compute_returns call
    response,            \* the response of the handler
    is_nps_arg,          \* process_returns / _compute_returns: the vehicle flag
    income_arg,          \* calculate_tax: the income argument
    tax,                 \* calculate_tax: the returned tax, in thousandths
    amount_invested_arg, \* calculate_tax_benefit: the amount argument
    annual_wage_arg,     \* calculate_tax_benefit: the annual wage argument
    benefit,             \* calculate_tax_benefit: the returned benefit, in thousandths
    JOBS,                \* the in-memory store of async jobs, by job id
    background_tasks,    \* the background tasks added and not yet run
    job_response         \* the last answer of an async endpoint or of /jobs/{job_id}

\* the request: no handler assigns to it
reqVars == <<expenses, q_periods, p_periods, k_periods, age, wage, inflation>>

\* the arguments and results of the tax functions
taxVars == <<income_arg, tax, amount_invested_arg, annual_wage_arg, benefit>>

\* the job store and what surrounds it
jobVars == <<JOBS, background_tasks, job_response>>

vars == <<pc, handler, reqVars, transaction, updated, transactions, seen_dates,
          valid, invalid, filtered_txns, invalid_from_filter, savings, t_years,
          heap, proj, response, is_nps_arg, taxVars, jobVars>>

-----------------------------------------------------------------------------
(* Bounds of the model *)

MaxDay == 3
MaxPeriods == 3
MaxTxns == 3
MaxK == 2
MaxAge == 75
MaxAmount == 310
IncomeStep == 100000
MaxIncomeSteps == 30
MaxDelta == 5
AmountStep == 30000
MaxAmountSteps == 8
MaxJobs == 3

-----------------------------------------------------------------------------
(* Dates: app/core/temporal.py *)

None == 0

Days == 1 .. MaxDay

\* every date text of the model: unparsable, padded and non-padded forms
DateStrings == 0 .. (2 * MaxDay)

\* the zero-padded text of instant d
Padded(d) == 2 * d - 1

\* the texts used as period boundaries: unparsable, or padded
PeriodStrings == {0} \cup {Padded(d) : d \in Days}

\* parse_date: the instant a text denotes, None when strptime raises ValueError
parse_date(date_str) ==
    IF date_str \in 1 .. (2 * MaxDay) THEN (date_str + 1) \div 2 ELSE None

Max(a, b) == IF a >= b THEN a ELSE b

-----------------------------------------------------------------------------
(* Records: app/models/schemas.py *)

Transaction(date, amount, ceiling, remanent) ==
    [date |-> date, amount |-> amount, ceiling |-> ceiling, remanent |-> remanent]

InvalidTransaction(t, message) ==
    [date |-> t.date, amount |-> t.amount, ceiling |-> t.ceiling,
     remanent |-> t.remanent, message |-> message]

QPeriod(fixed, start, end) == [fixed |-> fixed, start |-> start, end |-> end]

PPeriod(extra, start, end) == [extra |-> extra, start |-> start, end |-> end]

KPeriod(start, end) == [start |-> start, end |-> end]

SavingsByDate(start, end, amount, profits, tax_benefit) ==
    [start |-> start, end |-> end, amount |-> amount, profits |-> profits,
     tax_benefit |-> tax_benefit]

\* the error slot of a (transaction, error) pair when there is no error
NoError == "None"

-----------------------------------------------------------------------------
(* apply_temporal_rules: app/core/temporal.py *)

\* q_start and q_end and q_start <= t_date <= q_end
InPeriod(t_date, period) ==
    /\ parse_date(period.start) # None
    /\ parse_date(period.end) # None
    /\ parse_date(period.start) <= t_date
    /\ t_date <= parse_date(period.end)

\* matching_q: the tuples (q, i, q_start) of the Q periods containing t_date,
\* in list order; i is the 0-based position enumerate() gives
MatchingQ(t_date, qs) ==
    SelectSeq([n \in 1 .. Len(qs) |-> <<qs[n], n - 1, parse_date(qs[n].start)>>],
              LAMBDA x : InPeriod(t_date, x[1]))

\* a sort key that orders ties by ascending index under reverse=True
SortKeyPlainIndex(x) == <<x[3], x[2]>>

\* key=lambda x: (x[2], -x[1])
SortKey(x) == <<x[3], -x[2]>>

\* Python's tuple comparison on two-element keys
KeyLess(a, b) == a[1] < b[1] \/ (a[1] = b[1] /\ a[2] < b[2])

RECURSIVE InsertDesc(_, _)
InsertDesc(x, s) ==
    IF s = <<>> THEN <<x>>
    ELSE IF KeyLess(SortKey(Head(s)), SortKey(x)) THEN <<x>> \o s
    ELSE <<Head(s)>> \o InsertDesc(x, Tail(s))

\* list.sort(key=..., reverse=True): descending and stable
RECURSIVE SortReverse(_)
SortReverse(s) ==
    IF s = <<>> THEN <<>>
    ELSE InsertDesc(s[Len(s)], SortReverse(SubSeq(s, 1, Len(s) - 1)))

\* an accumulation that keeps only the last matching extra
RECURSIVE LastPExtra(_, _)
LastPExtra(t_date, ps) ==
    IF ps = <<>> THEN 0
    ELSE IF InPeriod(t_date, ps[Len(ps)]) THEN ps[Len(ps)].extra
    ELSE LastPExtra(t_date, SubSeq(ps, 1, Len(ps) - 1))

\* matching_p_extra after the loop over p_periods
RECURSIVE MatchingPExtra(_, _)
MatchingPExtra(t_date, ps) ==
    IF ps = <<>> THEN 0
    ELSE MatchingPExtra(t_date, SubSeq(ps, 1, Len(ps) - 1))
         + (IF InPeriod(t_date, ps[Len(ps)]) THEN ps[Len(ps)].extra ELSE 0)

\* the (Transaction | None, error | None) pair apply_temporal_rules returns
apply_temporal_rules(t, qs, ps) ==
    LET t_date == parse_date(t.date) IN
    IF t_date = None THEN <<<<>>, "Invalid date format">>
    ELSE
        LET matching_q == MatchingQ(t_date, qs)
            afterQ == IF matching_q # <<>>
                      THEN [t EXCEPT !.remanent = SortReverse(matching_q)[1][1].fixed]
                      ELSE t
        IN <<<<[afterQ EXCEPT !.remanent = @ + MatchingPExtra(t_date, ps)]>>,
             NoError>>

\* the argument written in place: the rules assign to the transaction
\* passed in, not to a copy
ArgumentAfterInPlace(t, qs, ps) ==
    IF apply_temporal_rules(t, qs, ps)[1] = <<>> THEN t
    ELSE apply_temporal_rules(t, qs, ps)[1][1]

\* the caller's transaction object once apply_temporal_rules has returned:
\* the early return writes nothing, and the assignments to remanent go to
\* updated_transaction, the object transaction.model_copy() made
ArgumentAfter(t, qs, ps) == t

-----------------------------------------------------------------------------
(* Deriving transactions: parse_transactions (app/api/transactions.py) and
   _parse (app/api/orchestrator.py) *)

\* a derivation that rounds up with ceil instead of floor + 100
DeriveCeil(exp) ==
    Transaction(exp.date, exp.amount,
                -(((-exp.amount) \div 100) * 100),
                -(((-exp.amount) \div 100) * 100) - exp.amount)

\* the transaction one loop iteration appends for the expense exp
Derive(exp) ==
    LET amount == exp.amount IN
    IF amount = 0 THEN Transaction(exp.date, amount, 0, 0)
    ELSE LET base == (amount \div 100) * 100
             ceiling == base + 100
             remanent == ceiling - amount
         IN Transaction(exp.date, amount, ceiling, remanent)

\* parse_transactions(expenses)
parse_transactions(exps) == [n \in 1 .. Len(exps) |-> Derive(exps[n])]

\* _parse(expenses)
_parse(exps) == [n \in 1 .. Len(exps) |-> Derive(exps[n])]

-----------------------------------------------------------------------------
(* Validators: validate_transactions (app/api/transactions.py) and
   _validate (app/api/orchestrator.py) *)

MaxLimit == 500000

\* the position of the transaction the for loop is at
LoopIndex == Len(valid) + Len(invalid) + 1

\* a duplicate test that also sees the dates of rejected transactions
SeenAnyEarlier(t, seen) ==
    \/ t.date \in seen
    \/ \E n \in 1 .. Len(invalid) : invalid[n].date = t.date

\* t.date in seen_dates
IsDuplicate(t, seen) == t.date \in seen

\* fault_message of validate_transactions; "" when is_valid stays True
FaultMessage(t, seen) ==
    IF t.amount < 0 THEN "Negative amnt not allowed"
    ELSE IF t.amount >= MaxLimit THEN "Exceeds max limit"
    ELSE IF IsDuplicate(t, seen) THEN "Duplicate date"
    ELSE ""

\* the message of the branch _validate takes; "" for the else branch
OrchMessage(t, seen) ==
    IF t.amount < 0 THEN "Negative amount"
    ELSE IF t.amount >= MaxLimit THEN "Exceeds max limit"
    ELSE IF IsDuplicate(t, seen) THEN "Duplicate date"
    ELSE ""

\* an iteration that records the date of every transaction it looks at
ValidatorIterationSeenAll(message) ==
    LET t == transactions[LoopIndex] IN
    /\ seen_dates' = seen_dates \cup {t.date}
    /\ IF message = ""
       THEN valid' = Append(valid, t) /\ UNCHANGED invalid
       ELSE invalid' = Append(invalid, InvalidTransaction(t, message)) /\ UNCHANGED valid

\* one iteration of a validator's loop, given the message of its branch
ValidatorIteration(message) ==
    LET t == transactions[LoopIndex] IN
    IF message = ""
    THEN /\ valid' = Append(valid, t)
         /\ seen_dates' = seen_dates \cup {t.date}
         /\ UNCHANGED invalid
    ELSE /\ invalid' = Append(invalid, InvalidTransaction(t, message))
         /\ UNCHANGED <<valid, seen_dates>>

\* one iteration of validate_transactions
ValidateTransactionsStep ==
    /\ pc = "loop"
    /\ handler = "validate_transactions"
    /\ LoopIndex <= Len(transactions)
    /\ ValidatorIteration(FaultMessage(transactions[LoopIndex], seen_dates))
    /\ UNCHANGED <<pc, handler, reqVars, is_nps_arg, taxVars, jobVars,
                   transaction, updated, transactions,
                   filtered_txns, invalid_from_filter, savings, t_years, heap, proj,
                   response>>

\* return ValidationResponse(valid=valid, invalid=invalid)
ValidateTransactionsReturn ==
    /\ pc = "loop"
    /\ handler = "validate_transactions"
    /\ LoopIndex > Len(transactions)
    /\ pc' = "return"
    /\ UNCHANGED <<handler, reqVars, is_nps_arg, taxVars, jobVars,
                   transaction, updated, transactions, seen_dates,
                   valid, invalid, filtered_txns, invalid_from_filter, savings,
                   t_years, heap, proj, response>>

\* one iteration of _validate
OrchValidateStep ==
    /\ pc = "loop"
    /\ handler = "_validate"
    /\ LoopIndex <= Len(transactions)
    /\ ValidatorIteration(OrchMessage(transactions[LoopIndex], seen_dates))
    /\ UNCHANGED <<pc, handler, reqVars, is_nps_arg, taxVars, jobVars,
                   transaction, updated, transactions,
                   filtered_txns, invalid_from_filter, savings, t_years, heap, proj,
                   response>>

\* return valid, invalid
OrchValidateReturn ==
    /\ pc = "loop"
    /\ handler = "_validate"
    /\ LoopIndex > Len(transactions)
    /\ pc' = "return"
    /\ UNCHANGED <<handler, reqVars, is_nps_arg, taxVars, jobVars,
                   transaction, updated, transactions, seen_dates,
                   valid, invalid, filtered_txns, invalid_from_filter, savings,
                   t_years, heap, proj, response>>

-----------------------------------------------------------------------------
(* Initial values of the variables a specification does not use *)

EmptyRequest ==
    /\ expenses = <<>>
    /\ q_periods = <<>>
    /\ p_periods = <<>>
    /\ k_periods = <<>>
    /\ age = 0
    /\ wage = 0
    /\ inflation = 0

IdleTemporal ==
    /\ transaction = <<>>
    /\ updated = <<>>

IdleValidator ==
    /\ transactions = <<>>
    /\ seen_dates = {}
    /\ valid = <<>>
    /\ invalid = <<>>

IdleTax ==
    /\ income_arg = 0
    /\ tax = 0
    /\ amount_invested_arg = 0
    /\ annual_wage_arg = 0
    /\ benefit = 0

IdleJobs ==
    /\ JOBS = <<>>
    /\ background_tasks = {}
    /\ job_response = <<>>

IdleReturns ==
    /\ filtered_txns = <<>>
    /\ invalid_from_filter = <<>>
    /\ savings = <<>>
    /\ t_years = 0
    /\ heap = <<>>
    /\ proj = <<>>
    /\ response = <<>>

-----------------------------------------------------------------------------
(* Inputs of the temporal-rule engine *)

\* period boundaries tried: every well-ordered range of padded texts, one
\* inverted range, one range with an unparsable start and one with an
\* unparsable end
Ranges ==
    {r \in PeriodStrings \X PeriodStrings :
        \/ r[1] # 0 /\ r[2] # 0 /\ r[1] <= r[2]
        \/ r = <<Padded(MaxDay), Padded(1)>>
        \/ r = <<0, Padded(MaxDay)>>
        \/ r = <<Padded(1), 0>>}

\* the ranges tried for P periods: those starting at the first instant, one
\* with an unparsable start and one with an unparsable end
PRanges == {r \in Ranges : r[1] \in {0, Padded(1)}}

\* the fixed value of the Q period at list position n: 0, 40, 80, ...
FixedAt(n) == 40 * (n - 1)

\* the extra of the P period at list position n: 10, -120, 30, -140, ...
ExtraAt(n) == IF n % 2 = 0 THEN -(100 + 10 * n) ELSE 10 * n

QLists(len) ==
    {[n \in 1 .. len |-> QPeriod(FixedAt(n), r[n][1], r[n][2])] :
        r \in [1 .. len -> Ranges]}

PLists(len) ==
    {[n \in 1 .. len |-> PPeriod(ExtraAt(n), r[n][1], r[n][2])] :
        r \in [1 .. len -> PRanges]}

\* the ranges tried for K periods: those over the first two instants and the
\* last one, one with an unparsable start and one with an unparsable end
KRanges ==
    {r \in Ranges : /\ r[1] \in {0, Padded(1), Padded(2)}
                    /\ r[2] \in {0, Padded(1), Padded(2), Padded(MaxDay)}}

KLists(len) ==
    {[n \in 1 .. len |-> KPeriod(r[n][1], r[n][2])] : r \in [1 .. len -> KRanges]}

-----------------------------------------------------------------------------
(* Specification of apply_temporal_rules on one transaction *)

InitTemporal ==
    /\ pc = "call"
    /\ handler = "apply_temporal_rules"
    /\ transaction \in {Transaction(s, 250, 300, 50) : s \in DateStrings}
    /\ \E nq \in 0 .. MaxPeriods : \E np \in 0 .. (MaxPeriods - nq) :
          /\ q_periods \in QLists(nq)
          /\ p_periods \in PLists(np)
    /\ k_periods = <<>>
    /\ expenses = <<>>
    /\ age = 0 /\ wage = 0 /\ inflation = 0
    /\ updated = <<>>
    /\ IdleValidator
    /\ IdleReturns
    /\ is_nps_arg = FALSE
    /\ IdleTax
    /\ IdleJobs

\* updated, err = apply_temporal_rules(t, q, p, k)
ApplyTemporalRules ==
    /\ pc = "call"
    /\ handler = "apply_temporal_rules"
    /\ updated' = apply_temporal_rules(transaction, q_periods, p_periods)
    /\ transaction' = ArgumentAfter(transaction, q_periods, p_periods)
    /\ pc' = "return"
    /\ UNCHANGED <<handler, reqVars, is_nps_arg, taxVars, jobVars, transactions,
                   seen_dates, valid, invalid, filtered_txns, invalid_from_filter,
                   savings, t_years, heap, proj, response>>

\* what the caller's loop body does with the pair returned for t: with an
\* error it reports t itself as invalid, otherwise it keeps updated_t
FilterTransactionsStep ==
    /\ pc = "return"
    /\ handler = "apply_temporal_rules"
    /\ IF updated[2] # NoError
       THEN /\ invalid' = Append(invalid, InvalidTransaction(transaction, updated[2]))
            /\ valid' = valid
       ELSE /\ valid' = Append(valid, updated[1][1])
            /\ invalid' = invalid
    /\ pc' = "reported"
    /\ UNCHANGED <<handler, reqVars, is_nps_arg, taxVars, jobVars, transaction, updated,
                   transactions, seen_dates, filtered_txns, invalid_from_filter,
                   savings, t_years, heap, proj, response>>

NextTemporal == ApplyTemporalRules \/ FilterTransactionsStep

SpecTemporal == InitTemporal /\ [][NextTemporal]_vars

-----------------------------------------------------------------------------
(* Specification of one validator call *)

\* the date texts of the validated transactions: two texts of one instant and
\* the text of another instant
ValidatorDates == {Padded(1), Padded(1) + 1, Padded(2)}

ValidatorAmounts == {-50, 250, MaxLimit - 1, MaxLimit}

ValidatorInputs ==
    {Derive([date |-> d, amount |-> a]) : d \in ValidatorDates, a \in ValidatorAmounts}

SeqsUpTo(S, len) == UNION {[1 .. n -> S] : n \in 0 .. len}

InitValidate ==
    /\ pc = "loop"
    /\ handler \in {"validate_transactions", "_validate"}
    /\ transactions \in SeqsUpTo(ValidatorInputs, MaxTxns)
    /\ seen_dates = {}
    /\ valid = <<>>
    /\ invalid = <<>>
    /\ EmptyRequest
    /\ IdleTemporal
    /\ IdleReturns
    /\ is_nps_arg = FALSE
    /\ IdleTax
    /\ IdleJobs

NextValidate ==
    \/ ValidateTransactionsStep
    \/ ValidateTransactionsReturn
    \/ OrchValidateStep
    \/ OrchValidateReturn

SpecValidate == InitValidate /\ [][NextValidate]_vars

-----------------------------------------------------------------------------
(* Specification of one call of a deriving handler *)

Expense(date, amount) == [date |-> date, amount |-> amount]

\* the expense lists tried: every integer amount of the range at the first
\* position, a zero or a multiple of 100 at the later ones
ExpenseLists ==
    {<<>>} \cup
    {<<Expense(Padded(1), a)>> \o rest :
        a \in (-MaxAmount) .. MaxAmount,
        rest \in SeqsUpTo({Expense(Padded(2), 0), Expense(Padded(2), 300)}, MaxTxns - 1)}

InitParse ==
    /\ pc = "call"
    /\ handler \in {"parse_transactions", "_parse"}
    /\ expenses \in ExpenseLists
    /\ q_periods = <<>>
    /\ p_periods = <<>>
    /\ k_periods = <<>>
    /\ age = 0
    /\ wage = 0
    /\ inflation = 0
    /\ IdleTemporal
    /\ IdleValidator
    /\ IdleReturns
    /\ is_nps_arg = FALSE
    /\ IdleTax
    /\ IdleJobs

\* POST /transactions:parse
ParseTransactions ==
    /\ pc = "call"
    /\ handler = "parse_transactions"
    /\ transactions' = parse_transactions(expenses)
    /\ pc' = "return"
    /\ UNCHANGED <<handler, reqVars, is_nps_arg, taxVars, jobVars,
                   transaction, updated, seen_dates, valid, invalid,
                   filtered_txns, invalid_from_filter, savings, t_years, heap, proj,
                   response>>

\* parsed = _parse(request.expenses)
OrchParse ==
    /\ pc = "call"
    /\ handler = "_parse"
    /\ transactions' = _parse(expenses)
    /\ pc' = "return"
    /\ UNCHANGED <<handler, reqVars, is_nps_arg, taxVars, jobVars,
                   transaction, updated, seen_dates, valid, invalid,
                   filtered_txns, invalid_from_filter, savings, t_years, heap, proj,
                   response>>

NextParse == ParseTransactions \/ OrchParse

SpecParse == InitParse /\ [][NextParse]_vars

-----------------------------------------------------------------------------
(* calculate_time: app/core/financial.py *)

\* a horizon whose comparison is off by one
CalculateTimeInclusive(a) == IF a <= 60 THEN 60 - a ELSE 5

\* calculate_time(age)
calculate_time(a) == IF a < 60 THEN 60 - a ELSE 5

InitTime ==
    /\ pc = "call"
    /\ handler = "calculate_time"
    /\ age \in 0 .. MaxAge
    /\ expenses = <<>>
    /\ q_periods = <<>>
    /\ p_periods = <<>>
    /\ k_periods = <<>>
    /\ wage = 0
    /\ inflation = 0
    /\ IdleTemporal
    /\ IdleValidator
    /\ IdleReturns
    /\ is_nps_arg = FALSE
    /\ IdleTax
    /\ IdleJobs

\* t_years = calculate_time(age)
CalculateTime ==
    /\ pc = "call"
    /\ handler = "calculate_time"
    /\ t_years' = calculate_time(age)
    /\ pc' = "return"
    /\ UNCHANGED <<handler, reqVars, is_nps_arg, taxVars, jobVars,
                   transaction, updated, transactions, seen_dates,
                   valid, invalid, filtered_txns, invalid_from_filter, savings, heap,
                   proj, response>>

NextTime == CalculateTime

SpecTime == InitTime /\ [][NextTime]_vars

-----------------------------------------------------------------------------
(* group_savings_by_k: app/core/financial.py; is_in_k_period:
   app/core/temporal.py *)

\* a containment test that leaves the end of the period out
IsInKPeriodOpenEnd(t_date, k) ==
    LET k_start == parse_date(k.start)
        k_end == parse_date(k.end)
    IN IF k_start # None /\ k_end # None
       THEN k_start <= t_date /\ t_date < k_end
       ELSE FALSE

\* is_in_k_period(t_date, k)
is_in_k_period(t_date, k) ==
    LET k_start == parse_date(k.start)
        k_end == parse_date(k.end)
    IN IF k_start # None /\ k_end # None
       THEN k_start <= t_date /\ t_date <= k_end
       ELSE FALSE

\* total after the inner loop over the transactions ts for the period k
RECURSIVE BucketTotal(_, _)
BucketTotal(ts, k) ==
    IF ts = <<>> THEN 0
    ELSE LET t == ts[Len(ts)]
             t_date == parse_date(t.date)
         IN BucketTotal(SubSeq(ts, 1, Len(ts) - 1), k)
            + (IF t_date # None /\ is_in_k_period(t_date, k) THEN t.remanent ELSE 0)

\* group_savings_by_k(transactions, k_periods)
group_savings_by_k(ts, ks) ==
    [n \in 1 .. Len(ks) |->
        SavingsByDate(ks[n].start, ks[n].end, BucketTotal(ts, ks[n]), 0, 0)]

\* the remanent of the grouped transaction at list position n: 50, -20, 150, ...
RemanentAt(n) == IF n % 2 = 0 THEN -(10 * n) ELSE 50 * n

\* the date texts of the grouped transactions: unparsable, the padded text of
\* the first instant and the non-padded text of the second
GroupDates == {0, Padded(1), Padded(2) + 1}

GroupInputs ==
    UNION {{[n \in 1 .. len |-> Transaction(d[n], 250, 300, RemanentAt(n))] :
               d \in [1 .. len -> GroupDates]} : len \in 0 .. MaxTxns}

InitGroup ==
    /\ pc = "call"
    /\ handler = "group_savings_by_k"
    /\ filtered_txns \in GroupInputs
    /\ k_periods \in UNION {KLists(len) : len \in 0 .. MaxK}
    /\ expenses = <<>>
    /\ q_periods = <<>>
    /\ p_periods = <<>>
    /\ age = 0
    /\ wage = 0
    /\ inflation = 0
    /\ IdleTemporal
    /\ IdleValidator
    /\ invalid_from_filter = <<>>
    /\ savings = <<>>
    /\ t_years = 0
    /\ heap = <<>>
    /\ proj = <<>>
    /\ response = <<>>
    /\ is_nps_arg = FALSE
    /\ IdleTax
    /\ IdleJobs

\* savings = group_savings_by_k(transactions, k)
GroupSavingsByK ==
    /\ pc = "call"
    /\ handler = "group_savings_by_k"
    /\ savings' = group_savings_by_k(filtered_txns, k_periods)
    /\ pc' = "return"
    /\ UNCHANGED <<handler, reqVars, is_nps_arg, taxVars, jobVars,
                   transaction, updated, transactions, seen_dates,
                   valid, invalid, filtered_txns, invalid_from_filter, t_years, heap,
                   proj, response>>

NextGroup == GroupSavingsByK

SpecGroup == InitGroup /\ [][NextGroup]_vars

-----------------------------------------------------------------------------
(* Formulas: app/core/financial.py.  Bucket amounts are whole units; profits
   and tax benefits are kept in hundredths of a unit, the precision round(x, 2)
   leaves.  Rates are in basis points and the inflation in percent.  The
   float powers are computed in fixed point, one year at a time, truncating
   to hundredths. *)

NPS_RATE == 711
INDEX_RATE == 1449

Min(a, b) == IF a <= b THEN a ELSE b

\* calculate_compound_interest(principal, rate, t), principal in hundredths
RECURSIVE calculate_compound_interest(_, _, _)
calculate_compound_interest(principal, rate, t) ==
    IF t = 0 THEN principal
    ELSE (calculate_compound_interest(principal, rate, t - 1) * (10000 + rate)) \div 10000

\* calculate_inflation_adjustment(amount, inflation, t), amount in hundredths
RECURSIVE calculate_inflation_adjustment(_, _, _)
calculate_inflation_adjustment(amount, infl, t) ==
    IF t = 0 THEN amount
    ELSE (calculate_inflation_adjustment(amount, infl, t - 1) * 100) \div (100 + infl)

\* calculate_tax without the lowering of income after a bracket
CalculateTaxNoCap(income) ==
    LET tax1 == IF income > 10 * 1500000 THEN (income - 10 * 1500000) * 30 ELSE 0
        tax2 == IF income > 10 * 1200000 THEN (income - 10 * 1200000) * 20 ELSE 0
        tax3 == IF income > 10 * 1000000 THEN (income - 10 * 1000000) * 15 ELSE 0
        tax4 == IF income > 10 * 700000 THEN (income - 10 * 700000) * 10 ELSE 0
    IN tax1 + tax2 + tax3 + tax4

\* calculate_tax(income): income in tenths of a unit, tax in thousandths
calculate_tax(income) ==
    LET tax1 == IF income > 10 * 1500000 THEN (income - 10 * 1500000) * 30 ELSE 0
        income1 == Min(income, 10 * 1500000)
        tax2 == IF income1 > 10 * 1200000 THEN (income1 - 10 * 1200000) * 20 ELSE 0
        income2 == Min(income1, 10 * 1200000)
        tax3 == IF income2 > 10 * 1000000 THEN (income2 - 10 * 1000000) * 15 ELSE 0
        income3 == Min(income2, 10 * 1000000)
        tax4 == IF income3 > 10 * 700000 THEN (income3 - 10 * 700000) * 10 ELSE 0
    IN tax1 + tax2 + tax3 + tax4

\* calculate_tax_benefit without the cap of a tenth of the annual wage
CalculateTaxBenefitNoWageCap(amount_invested, annual_wage) ==
    LET nps_deduction == Min(10 * amount_invested, 10 * 200000)
        tax_no_deduction == calculate_tax(10 * annual_wage)
        tax_with_deduction == calculate_tax(Max(0, 10 * annual_wage - nps_deduction))
    IN tax_no_deduction - tax_with_deduction

\* calculate_tax_benefit(amount_invested, annual_wage): both in whole units,
\* the benefit in thousandths
calculate_tax_benefit(amount_invested, annual_wage) ==
    LET nps_deduction == Min(Min(10 * amount_invested, annual_wage), 10 * 200000)
        tax_no_deduction == calculate_tax(10 * annual_wage)
        tax_with_deduction == calculate_tax(Max(0, 10 * annual_wage - nps_deduction))
    IN tax_no_deduction - tax_with_deduction

\* round(x, 2) of a non-negative value in thousandths, in hundredths
Round2(milli) ==
    LET q == milli \div 10
        r == milli % 10
    IN IF r > 5 \/ (r = 5 /\ q % 2 = 1) THEN q + 1 ELSE q

-----------------------------------------------------------------------------
(* _compute_returns: app/api/orchestrator.py *)

RECURSIVE SumAmount(_)
\* sum(t.amount for t in transactions)
SumAmount(ts) ==
    IF ts = <<>> THEN 0 ELSE SumAmount(SubSeq(ts, 1, Len(ts) - 1)) + ts[Len(ts)].amount

RECURSIVE SumCeiling(_)
\* sum(t.ceiling for t in transactions)
SumCeiling(ts) ==
    IF ts = <<>> THEN 0 ELSE SumCeiling(SubSeq(ts, 1, Len(ts) - 1)) + ts[Len(ts)].ceiling

\* the loop body without its test of the bucket's amount
FillBucketAlways(s, years, annual_wage, infl, is_nps) ==
    LET rate == IF is_nps THEN NPS_RATE ELSE INDEX_RATE
        fv == calculate_compound_interest(100 * s.amount, rate, years)
        real_fv == calculate_inflation_adjustment(fv, infl, years)
    IN [s EXCEPT !.profits = real_fv - 100 * s.amount,
                 !.tax_benefit =
                     IF is_nps
                     THEN Round2(calculate_tax_benefit(s.amount, annual_wage))
                     ELSE @]

\* the body of the loop "for s in savings" on the bucket s
FillBucket(s, years, annual_wage, infl, is_nps) ==
    IF s.amount > 0
    THEN LET rate == IF is_nps THEN NPS_RATE ELSE INDEX_RATE
             fv == calculate_compound_interest(100 * s.amount, rate, years)
             real_fv == calculate_inflation_adjustment(fv, infl, years)
         IN [s EXCEPT !.profits = real_fv - 100 * s.amount,
                      !.tax_benefit =
                          IF is_nps
                          THEN Round2(calculate_tax_benefit(s.amount, annual_wage))
                          ELSE @]
    ELSE s

ReturnsResponse(total_amount, total_ceiling, buckets) ==
    [transactions_total_amount |-> total_amount,
     transactions_total_ceiling |-> total_ceiling,
     savings_by_dates |-> buckets]

\* the value _compute_returns returns when nothing else runs
_compute_returns(ts, ks, a, w, infl, is_nps) ==
    LET grouped == group_savings_by_k(ts, ks) IN
    ReturnsResponse(SumAmount(ts), SumCeiling(ts),
                    [n \in 1 .. Len(grouped) |->
                        FillBucket(grouped[n], calculate_time(a), w * 12, infl, is_nps)])

Vehicles == {"nps", "index"}

\* an allocator that hands out the cells of the last list again
SharedBase == Max(0, Len(heap) - Len(k_periods))

\* the address before the first one a new list of buckets gets: objects are
\* created fresh, after all the existing ones
AllocBase == Len(heap)

\* the heap h with the list fresh stored in the cells base+1, base+2, ...
Store(h, base, fresh) ==
    [a \in 1 .. Max(Len(h), base + Len(fresh)) |->
        IF a > base /\ a <= base + Len(fresh) THEN fresh[a - base] ELSE h[a]]

\* the buckets a frame's savings list refers to, as they are now
Buckets(v) == [n \in 1 .. Len(proj[v].savings) |-> heap[proj[v].savings[n]]]

\* the ReturnsResponse of the vehicle v, as serialised now
Result(v) == ReturnsResponse(proj[v].total_amount, proj[v].total_ceiling, Buckets(v))

NewFrame ==
    [pc |-> "start", savings |-> <<>>, n |-> 0, total_amount |-> 0,
     total_ceiling |-> 0, t_years |-> 0, annual_wage |-> 0]

\* /calculate runs the index-fund projection after the NPS one has returned
MayRun(v) ==
    /\ pc = "returns"
    /\ handler \in {"_compute_returns", "calculate"}
    /\ (handler = "calculate" /\ v = "index") => proj["nps"].pc = "done"

\* the totals, savings = group_savings_by_k(transactions, k), t_years and
\* annual_wage of the call for vehicle v
ComputeReturnsStart(v) ==
    /\ MayRun(v)
    /\ proj[v].pc = "start"
    /\ LET fresh == group_savings_by_k(filtered_txns, k_periods)
           base == AllocBase
       IN /\ heap' = Store(heap, base, fresh)
          /\ proj' = [proj EXCEPT ![v] =
                [pc |-> "loop",
                 savings |-> [n \in 1 .. Len(fresh) |-> base + n],
                 n |-> 1,
                 total_amount |-> SumAmount(filtered_txns),
                 total_ceiling |-> SumCeiling(filtered_txns),
                 t_years |-> calculate_time(age),
                 annual_wage |-> wage * 12]]
    /\ UNCHANGED <<pc, handler, reqVars, is_nps_arg, taxVars, jobVars,
                   transaction, updated, transactions,
                   seen_dates, valid, invalid, filtered_txns, invalid_from_filter,
                   savings, t_years, response>>

\* one iteration of "for s in savings" of the call for vehicle v
ComputeReturnsBucket(v) ==
    /\ MayRun(v)
    /\ proj[v].pc = "loop"
    /\ proj[v].n <= Len(proj[v].savings)
    /\ LET s == proj[v].savings[proj[v].n] IN
       heap' = [heap EXCEPT ![s] =
                    FillBucket(heap[s], proj[v].t_years, proj[v].annual_wage,
                               inflation, v = "nps")]
    /\ proj' = [proj EXCEPT ![v].n = @ + 1]
    /\ UNCHANGED <<pc, handler, reqVars, is_nps_arg, taxVars, jobVars,
                   transaction, updated, transactions,
                   seen_dates, valid, invalid, filtered_txns, invalid_from_filter,
                   savings, t_years, response>>

\* return ReturnsResponse(...) of the call for vehicle v
ComputeReturnsReturn(v) ==
    /\ MayRun(v)
    /\ proj[v].pc = "loop"
    /\ proj[v].n > Len(proj[v].savings)
    /\ proj' = [proj EXCEPT ![v].pc = "done"]
    /\ UNCHANGED <<pc, handler, reqVars, is_nps_arg, taxVars, jobVars,
                   transaction, updated, transactions,
                   seen_dates, valid, invalid, filtered_txns, invalid_from_filter,
                   savings, t_years, heap, response>>

-----------------------------------------------------------------------------
(* Specification of the two projections over the same filtered transactions,
   their steps interleaved in every way *)

\* the filtered transactions tried: dated on the first or the second instant,
\* with the remanent of their list position
ProjectionInputs ==
    UNION {{[n \in 1 .. len |-> Transaction(d[n], 250, 300, RemanentAt(n))] :
               d \in [1 .. len -> {Padded(1), Padded(2)}]} : len \in 0 .. MaxTxns}

ProjectionRanges == {<<Padded(1), Padded(1)>>, <<Padded(1), Padded(2)>>}

ProjectionKLists ==
    UNION {{[n \in 1 .. len |-> KPeriod(r[n][1], r[n][2])] :
               r \in [1 .. len -> ProjectionRanges]} : len \in 0 .. MaxK}

InitProjections ==
    /\ pc = "returns"
    /\ handler = "_compute_returns"
    /\ filtered_txns \in ProjectionInputs
    /\ k_periods \in ProjectionKLists
    /\ age \in {59, 60}
    /\ wage = 80000
    /\ inflation = 5
    /\ expenses = <<>>
    /\ q_periods = <<>>
    /\ p_periods = <<>>
    /\ IdleTemporal
    /\ IdleValidator
    /\ invalid_from_filter = <<>>
    /\ savings = <<>>
    /\ t_years = 0
    /\ heap = <<>>
    /\ proj = [v \in Vehicles |-> NewFrame]
    /\ response = <<>>
    /\ is_nps_arg = FALSE
    /\ IdleTax
    /\ IdleJobs

NextProjections ==
    \E v \in Vehicles :
        \/ ComputeReturnsStart(v)
        \/ ComputeReturnsBucket(v)
        \/ ComputeReturnsReturn(v)

SpecProjections == InitProjections /\ [][NextProjections]_vars

-----------------------------------------------------------------------------
(* The /calculate pipeline: app/api/orchestrator.py *)

\* a filter stage that drops the transactions it cannot date
RECURSIVE ApplyRulesDropping(_, _, _)
ApplyRulesDropping(ts, q, p) ==
    IF ts = <<>> THEN <<<<>>, <<>>>>
    ELSE LET before == ApplyRulesDropping(SubSeq(ts, 1, Len(ts) - 1), q, p)
             r == apply_temporal_rules(ts[Len(ts)], q, p)
         IN IF r[2] # NoError THEN before
            ELSE <<Append(before[1], r[1][1]), before[2]>>

\* the loop of _apply_rules over ts: the pair (valid, invalid) it builds
RECURSIVE ApplyRulesLoop(_, _, _)
ApplyRulesLoop(ts, q, p) ==
    IF ts = <<>> THEN <<<<>>, <<>>>>
    ELSE LET before == ApplyRulesLoop(SubSeq(ts, 1, Len(ts) - 1), q, p)
             t == ts[Len(ts)]
             r == apply_temporal_rules(t, q, p)
         IN IF r[2] # NoError
            THEN <<before[1], Append(before[2], InvalidTransaction(t, r[2]))>>
            ELSE <<Append(before[1], r[1][1]), before[2]>>

\* _apply_rules(transactions, q, p, k)
_apply_rules(ts, q, p) == ApplyRulesLoop(ts, q, p)

CalculateExpenses ==
    SeqsUpTo({Expense(d, a) : d \in {0, Padded(1), Padded(2)}, a \in {-50, 250, MaxLimit}},
             MaxTxns)

InitCalculate ==
    /\ pc = "parse"
    /\ handler = "calculate"
    /\ expenses \in CalculateExpenses
    /\ \/ q_periods = <<>> /\ p_periods = <<>>
       \/ /\ q_periods = <<QPeriod(40, Padded(1), Padded(2))>>
          /\ p_periods = <<PPeriod(10, Padded(1), Padded(1))>>
    /\ k_periods \in {<<KPeriod(Padded(1), Padded(2))>>,
                      <<KPeriod(Padded(1), Padded(1)), KPeriod(Padded(2), Padded(MaxDay))>>}
    /\ age = 59
    /\ wage = 80000
    /\ inflation = 5
    /\ IdleTemporal
    /\ IdleValidator
    /\ filtered_txns = <<>>
    /\ invalid_from_filter = <<>>
    /\ savings = <<>>
    /\ t_years = 0
    /\ heap = <<>>
    /\ proj = [v \in Vehicles |-> NewFrame]
    /\ response = <<>>
    /\ is_nps_arg = FALSE
    /\ IdleTax
    /\ IdleJobs

\* Step 1: parsed = _parse(request.expenses)
CalcParse ==
    /\ pc = "parse"
    /\ handler = "calculate"
    /\ transactions' = _parse(expenses)
    /\ pc' = "validate"
    /\ UNCHANGED <<handler, reqVars, is_nps_arg, taxVars, jobVars,
                   transaction, updated, seen_dates, valid, invalid,
                   filtered_txns, invalid_from_filter, savings, t_years, heap, proj,
                   response>>

\* Step 2: one iteration of the loop of _validate(parsed)
CalcValidateStep ==
    /\ pc = "validate"
    /\ handler = "calculate"
    /\ LoopIndex <= Len(transactions)
    /\ ValidatorIteration(OrchMessage(transactions[LoopIndex], seen_dates))
    /\ UNCHANGED <<pc, handler, reqVars, is_nps_arg, taxVars, jobVars,
                   transaction, updated, transactions,
                   filtered_txns, invalid_from_filter, savings, t_years, heap, proj,
                   response>>

\* Step 2: _validate returns valid_txns, invalid_from_validation
CalcValidateReturn ==
    /\ pc = "validate"
    /\ handler = "calculate"
    /\ LoopIndex > Len(transactions)
    /\ pc' = "apply_rules"
    /\ UNCHANGED <<handler, reqVars, is_nps_arg, taxVars, jobVars,
                   transaction, updated, transactions, seen_dates,
                   valid, invalid, filtered_txns, invalid_from_filter, savings,
                   t_years, heap, proj, response>>

\* Step 3: filtered_txns, invalid_from_filter = _apply_rules(valid_txns, q, p, k)
CalcApplyRules ==
    /\ pc = "apply_rules"
    /\ handler = "calculate"
    /\ filtered_txns' = _apply_rules(valid, q_periods, p_periods)[1]
    /\ invalid_from_filter' = _apply_rules(valid, q_periods, p_periods)[2]
    /\ pc' = "returns"
    /\ UNCHANGED <<handler, reqVars, is_nps_arg, taxVars, jobVars,
                   transaction, updated, transactions, seen_dates,
                   valid, invalid, savings, t_years, heap, proj, response>>

\* return CalculateResponse(...), with all_rejected = invalid_from_validation
\* + invalid_from_filter
CalcRespond ==
    /\ pc = "returns"
    /\ handler = "calculate"
    /\ \A v \in Vehicles : proj[v].pc = "done"
    /\ response' =
          [summary |-> [parsed |-> Len(transactions),
                        valid |-> Len(valid),
                        filtered |-> Len(filtered_txns),
                        rejected |-> Len(invalid \o invalid_from_filter)],
           rejected_transactions |-> invalid \o invalid_from_filter,
           nps |-> Result("nps"),
           index_fund |-> Result("index")]
    /\ pc' = "done"
    /\ UNCHANGED <<handler, reqVars, is_nps_arg, taxVars, jobVars,
                   transaction, updated, transactions, seen_dates,
                   valid, invalid, filtered_txns, invalid_from_filter, savings,
                   t_years, heap, proj>>

NextCalculate ==
    \/ CalcParse
    \/ CalcValidateStep
    \/ CalcValidateReturn
    \/ CalcApplyRules
    \/ \E v \in Vehicles :
          \/ ComputeReturnsStart(v)
          \/ ComputeReturnsBucket(v)
          \/ ComputeReturnsReturn(v)
    \/ CalcRespond

SpecCalculate == InitCalculate /\ [][NextCalculate]_vars

(***************************************************************************)
(* The tax schedule: calculate_tax on one income.                          *)
(***************************************************************************)

\* the incomes tried: a grid, and every income near zero, near a bracket
\* threshold and near the income of the high-income test
Thresholds == {0, 700000, 1000000, 1200000, 1500000, 1600000}

Incomes ==
    {k * IncomeStep : k \in (-1) .. MaxIncomeSteps}
        \cup {th + e : th \in Thresholds, e \in (-MaxDelta) .. MaxDelta}

InitTax ==
    /\ pc = "call"
    /\ handler = "calculate_tax"
    /\ income_arg \in Incomes
    /\ tax = 0
    /\ amount_invested_arg = 0
    /\ annual_wage_arg = 0
    /\ benefit = 0
    /\ EmptyRequest
    /\ IdleTemporal
    /\ IdleValidator
    /\ IdleReturns
    /\ is_nps_arg = FALSE
    /\ IdleJobs

\* tax = calculate_tax(income)
CalculateTax ==
    /\ pc = "call"
    /\ handler = "calculate_tax"
    /\ tax' = calculate_tax(10 * income_arg)
    /\ pc' = "return"
    /\ UNCHANGED <<handler, reqVars, is_nps_arg, income_arg, amount_invested_arg,
                   annual_wage_arg, benefit, jobVars, transaction, updated,
                   transactions, seen_dates, valid, invalid, filtered_txns,
                   invalid_from_filter, savings, t_years, heap, proj, response>>

NextTax == CalculateTax

SpecTax == InitTax /\ [][NextTax]_vars

(***************************************************************************)
(* The tax benefit: calculate_tax_benefit on one amount and one wage.      *)
(***************************************************************************)

\* the invested amounts tried: a grid, and every amount near the cap
Amounts ==
    {k * AmountStep : k \in 1 .. MaxAmountSteps}
        \cup {a \in {m + e : m \in {0, 100000, 200000}, e \in (-1) .. 1} : a > 0}

AnnualWages == {w \in Incomes : w >= 0}

InitTaxBenefit ==
    /\ pc = "call"
    /\ handler = "calculate_tax_benefit"
    /\ amount_invested_arg \in Amounts
    /\ annual_wage_arg \in AnnualWages
    /\ income_arg = 0
    /\ tax = 0
    /\ benefit = 0
    /\ EmptyRequest
    /\ IdleTemporal
    /\ IdleValidator
    /\ IdleReturns
    /\ is_nps_arg = FALSE
    /\ IdleJobs

\* benefit = calculate_tax_benefit(amount_invested, annual_wage)
CalculateTaxBenefit ==
    /\ pc = "call"
    /\ handler = "calculate_tax_benefit"
    /\ benefit' = calculate_tax_benefit(amount_invested_arg, annual_wage_arg)
    /\ pc' = "return"
    /\ UNCHANGED <<handler, reqVars, is_nps_arg, income_arg, tax, amount_invested_arg,
                   annual_wage_arg, jobVars, transaction, updated, transactions,
                   seen_dates, valid, invalid, filtered_txns, invalid_from_filter,
                   savings, t_years, heap, proj, response>>

NextTaxBenefit == CalculateTaxBenefit

SpecTaxBenefit == InitTaxBenefit /\ [][NextTaxBenefit]_vars

(***************************************************************************)
(* Projections of app/api/returns.py: process_returns, next to the         *)
(* orchestrator's _compute_returns on the same inputs.                     *)
(***************************************************************************)

ReturnsRequest(a, w, infl, q, p, k, ts) ==
    [age |-> a, wage |-> w, inflation |-> infl, q |-> q, p |-> p, k |-> k,
     transactions |-> ts]

RECURSIVE FilteredTransactions(_, _, _)
\* filtered_transactions after the loop "for t in request.transactions": the
\* updated transactions of the calls that returned no error, in order
FilteredTransactions(ts, q, p) ==
    IF ts = <<>> THEN <<>>
    ELSE LET r == apply_temporal_rules(ts[Len(ts)], q, p)
         IN FilteredTransactions(SubSeq(ts, 1, Len(ts) - 1), q, p)
            \o (IF r[2] = NoError /\ r[1] # <<>> THEN r[1] ELSE <<>>)

\* amount / math.pow(1 + inflation, t) divides by zero: ZeroDivisionError
InflationAdjustmentRaises(infl, t) == 100 + infl = 0 /\ t > 0

\* the exception, if any, that leaves process_returns: the inflation
\* adjustment of the first bucket with a positive amount
ProcessReturnsRaises(request) ==
    LET filtered_transactions ==
            FilteredTransactions(request.transactions, request.q, request.p)
        savings_by_dates == group_savings_by_k(filtered_transactions, request.k)
    IN /\ \E n \in 1 .. Len(savings_by_dates) : savings_by_dates[n].amount > 0
       /\ InflationAdjustmentRaises(request.inflation, calculate_time(request.age))

\* the ReturnsResponse process_returns(request, is_nps) returns
process_returns(request, is_nps) ==
    LET filtered_transactions ==
            FilteredTransactions(request.transactions, request.q, request.p)
        total_amount == SumAmount(filtered_transactions)
        total_ceiling == SumCeiling(filtered_transactions)
        savings_by_dates == group_savings_by_k(filtered_transactions, request.k)
        years == calculate_time(request.age)
        annual_wage == request.wage * 12
    IN ReturnsResponse(total_amount, total_ceiling,
                       [n \in 1 .. Len(savings_by_dates) |->
                           FillBucket(savings_by_dates[n], years, annual_wage,
                                      request.inflation, is_nps)])

\* the amount and the ceiling of the transaction at list position n
AmountAt(n) == 100 * n + 50

CeilingAt(n) == 100 * (n + 1)

\* the date texts of the projected transactions: unparsable, and the padded
\* texts of three instants, the last of which no K period covers
ReturnsDates == {0, Padded(1), Padded(2), Padded(3)}

ReturnsInputs ==
    UNION {{[n \in 1 .. len |->
                Transaction(d[n], AmountAt(n), CeilingAt(n), RemanentAt(n))] :
               d \in [1 .. len -> ReturnsDates]} : len \in 0 .. MaxTxns}

ReturnsRanges == {<<Padded(1), Padded(1)>>, <<Padded(1), Padded(2)>>,
                  <<Padded(2), Padded(2)>>}

ReturnsKLists ==
    UNION {{[n \in 1 .. len |-> KPeriod(r[n][1], r[n][2])] :
               r \in [1 .. len -> ReturnsRanges]} : len \in 0 .. MaxK}

ReturnsQLists == {<<>>, <<QPeriod(-30, Padded(1), Padded(1))>>}

ReturnsPLists == {<<>>, <<PPeriod(25, Padded(1), Padded(2))>>}

InitReturns ==
    /\ pc = "call"
    /\ handler \in {"process_returns", "_compute_returns"}
    /\ is_nps_arg \in BOOLEAN
    /\ IF handler = "process_returns"
       THEN /\ transactions \in ReturnsInputs
            /\ filtered_txns = <<>>
            /\ q_periods \in ReturnsQLists
            /\ p_periods \in ReturnsPLists
       ELSE /\ transactions = <<>>
            /\ filtered_txns \in ReturnsInputs
            /\ q_periods = <<>>
            /\ p_periods = <<>>
    /\ k_periods \in ReturnsKLists
    /\ expenses = <<>>
    /\ age = 55
    /\ wage = 80000
    /\ inflation = 5
    /\ transaction = <<>>
    /\ updated = <<>>
    /\ seen_dates = {}
    /\ valid = <<>>
    /\ invalid = <<>>
    /\ invalid_from_filter = <<>>
    /\ savings = <<>>
    /\ t_years = 0
    /\ heap = <<>>
    /\ proj = <<>>
    /\ response = <<>>
    /\ IdleTax
    /\ IdleJobs

\* response = process_returns(request, is_nps)
ProcessReturns ==
    /\ pc = "call"
    /\ handler = "process_returns"
    /\ LET request == ReturnsRequest(age, wage, inflation, q_periods, p_periods,
                                     k_periods, transactions)
       IN /\ ~ProcessReturnsRaises(request)
          /\ response' = process_returns(request, is_nps_arg)
    /\ pc' = "return"
    /\ UNCHANGED <<handler, reqVars, is_nps_arg, taxVars, jobVars, transaction, updated,
                   transactions, seen_dates, valid, invalid, filtered_txns,
                   invalid_from_filter, savings, t_years, heap, proj>>

\* response = _compute_returns(filtered, k, age, wage, inflation, is_nps)
ComputeReturns ==
    /\ pc = "call"
    /\ handler = "_compute_returns"
    /\ response' = _compute_returns(filtered_txns, k_periods, age, wage, inflation,
                                    is_nps_arg)
    /\ pc' = "return"
    /\ UNCHANGED <<handler, reqVars, is_nps_arg, taxVars, jobVars, transaction, updated,
                   transactions, seen_dates, valid, invalid, filtered_txns,
                   invalid_from_filter, savings, t_years, heap, proj>>

NextReturns == ProcessReturns \/ ComputeReturns

SpecReturns == InitReturns /\ [][NextReturns]_vars

(***************************************************************************)
(* The async jobs of app/api/returns.py: the two async endpoints, the      *)
(* background task of each job and the status endpoint, in any order.      *)
(***************************************************************************)

\* the values str(uuid.uuid4()) can take; a value is not drawn twice
JobIds == 1 .. MaxJobs

\* the ids a client can ask /jobs/{job_id} about: 0 is never a job's id
PollIds == 0 .. MaxJobs

\* the requests submitted: one that process_returns answers and one on which
\* it raises (an inflation of -100 percent)
JobRequests ==
    {ReturnsRequest(55, 80000, infl, <<>>, <<>>,
                    <<KPeriod(Padded(1), Padded(1))>>,
                    <<Transaction(Padded(1), 150, 200, 50)>>) : infl \in {5, -100}}

\* the record stored by an async endpoint; a result or an error that is None
\* is the empty list, one that is set is the list of its value
Processing == [status |-> "processing", result |-> <<>>, error |-> <<>>]

JobResponse(job_id, status) == [job_id |-> job_id, status |-> status]

JobStatusResponse(job_id, job) ==
    [job_id |-> job_id, status |-> job.status, result |-> job.result,
     error |-> job.error]

\* the answer to /jobs/{job_id} when HTTPException(404) is raised
JobNotFound(job_id) ==
    [path |-> job_id, status_code |-> 404, detail |-> "Job not found"]

\* JOBS[key] = value
SetItem(store, key, value) ==
    [k \in DOMAIN store \cup {key} |-> IF k = key THEN value ELSE store[k]]

\* the record background_process_returns stores: "completed" with the result
\* of process_returns, or "failed" with the text of the exception it raised
BackgroundOutcome(request, is_nps) ==
    IF ProcessReturnsRaises(request)
    THEN [status |-> "failed", result |-> <<>>,
          error |-> <<"float division by zero">>]
    ELSE [status |-> "completed", result |-> <<process_returns(request, is_nps)>>,
          error |-> <<>>]

\* BackgroundOutcome, tabulated over the requests and vehicles submitted
Outcomes ==
    [request \in JobRequests, is_nps \in BOOLEAN |-> BackgroundOutcome(request, is_nps)]

InitJobs ==
    /\ pc = "serving"
    /\ handler = "jobs"
    /\ JOBS = <<>>
    /\ background_tasks = {}
    /\ job_response = <<>>
    /\ EmptyRequest
    /\ IdleTemporal
    /\ IdleValidator
    /\ IdleReturns
    /\ is_nps_arg = FALSE
    /\ IdleTax

\* the body shared by calculate_nps_async and calculate_index_async
SubmitJob(request, is_nps) ==
    /\ handler = "jobs"
    /\ \E job_id \in JobIds \ DOMAIN JOBS :
          /\ JOBS' = SetItem(JOBS, job_id, Processing)
          /\ background_tasks' = background_tasks
                \cup {[job_id |-> job_id, request |-> request, is_nps |-> is_nps]}
          /\ job_response' = JobResponse(job_id, "processing")
    /\ UNCHANGED <<pc, handler, reqVars, is_nps_arg, taxVars, transaction, updated,
                   transactions, seen_dates, valid, invalid, filtered_txns,
                   invalid_from_filter, savings, t_years, heap, proj, response>>

\* POST /returns:nps:async
CalculateNpsAsync == \E request \in JobRequests : SubmitJob(request, TRUE)

\* POST /returns:index:async
CalculateIndexAsync == \E request \in JobRequests : SubmitJob(request, FALSE)

\* the background task writing under the greatest job id of the store
BackgroundProcessReturnsSharedKey(task) ==
    /\ handler = "jobs"
    /\ task \in background_tasks
    /\ LET job_id == CHOOSE k \in DOMAIN JOBS : \A j \in DOMAIN JOBS : j <= k
       IN JOBS' = SetItem(JOBS, job_id, Outcomes[task.request, task.is_nps])
    /\ background_tasks' = background_tasks \ {task}
    /\ UNCHANGED <<pc, handler, reqVars, is_nps_arg, taxVars, job_response,
                   transaction, updated, transactions, seen_dates, valid, invalid,
                   filtered_txns, invalid_from_filter, savings, t_years, heap, proj,
                   response>>

\* background_process_returns(job_id, request, is_nps), run once per task
BackgroundProcessReturns(task) ==
    /\ handler = "jobs"
    /\ task \in background_tasks
    /\ JOBS' = SetItem(JOBS, task.job_id, Outcomes[task.request, task.is_nps])
    /\ background_tasks' = background_tasks \ {task}
    /\ UNCHANGED <<pc, handler, reqVars, is_nps_arg, taxVars, job_response,
                   transaction, updated, transactions, seen_dates, valid, invalid,
                   filtered_txns, invalid_from_filter, savings, t_years, heap, proj,
                   response>>

\* GET /jobs/{job_id}
GetJobStatus(job_id) ==
    /\ handler = "jobs"
    /\ job_response' = IF job_id \notin DOMAIN JOBS THEN JobNotFound(job_id)
                       ELSE JobStatusResponse(job_id, JOBS[job_id])
    /\ UNCHANGED <<pc, handler, reqVars, is_nps_arg, taxVars, JOBS, background_tasks,
                   transaction, updated, transactions, seen_dates, valid, invalid,
                   filtered_txns, invalid_from_filter, savings, t_years, heap, proj,
                   response>>

RunBackgroundTask == \E task \in background_tasks : BackgroundProcessReturns(task)

PollJob == \E job_id \in PollIds : GetJobStatus(job_id)

NextJobs ==
    \/ CalculateNpsAsync
    \/ CalculateIndexAsync
    \/ RunBackgroundTask
    \/ PollJob

SpecJobs == InitJobs /\ [][NextJobs]_vars

\* the task of job j, if added and not yet run, runs
TaskOf(j) ==
    \E task \in background_tasks : task.job_id = j /\ BackgroundProcessReturns(task)

\* the server runs every background task it was given once the response of
\* its endpoint is sent
SpecJobsFair == SpecJobs /\ \A j \in JobIds : WF_vars(TaskOf(j))

-----------------------------------------------------------------------------
(* Helpers of the properties *)

RECURSIVE SumOver(_, _)
\* the sum of f[x] over the finite set S
SumOver(S, f) ==
    IF S = {} THEN 0
    ELSE LET x == CHOOSE y \in S : TRUE IN f[x] + SumOver(S \ {x}, f)

\* the positions of the periods whose inclusive range contains instant d
Containing(d, periods) ==
    {n \in 1 .. Len(periods) :
        LET a == parse_date(periods[n].start)
            b == parse_date(periods[n].end)
        IN a # None /\ b # None /\ a <= d /\ d <= b}

\* position w wins among the matching positions M of the Q list qs
IsWinner(w, M, qs) ==
    /\ w \in M
    /\ \A j \in M \ {w} :
          \/ parse_date(qs[j].start) < parse_date(qs[w].start)
          \/ parse_date(qs[j].start) = parse_date(qs[w].start) /\ w < j

Returned == pc = "return" /\ handler = "apply_temporal_rules"

\* the total of the extras of the matching P periods of the current call
PTotal ==
    SumOver(Containing(parse_date(transaction.date), p_periods),
            [n \in 1 .. Len(p_periods) |-> p_periods[n].extra])

-----------------------------------------------------------------------------
(* Properties of apply_temporal_rules *)

\* C1: for a transaction with a parsable date at most one Q period applies:
\* among the Q periods whose inclusive range contains the date the one with
\* the latest start wins, the lowest list position breaking a tie in start
\* whatever the ends; with no containing Q period the remanent is not replaced.
C1_QWinner ==
    (Returned /\ parse_date(transaction.date) # None) =>
        LET d == parse_date(transaction.date)
            M == Containing(d, q_periods)
            base == updated[1][1].remanent - PTotal
        IN /\ updated[2] = NoError
           /\ M = {} => base = transaction.remanent
           /\ \A w \in M : IsWinner(w, M, q_periods) => base = q_periods[w].fixed
           /\ M # {} => \E w \in M : IsWinner(w, M, q_periods)

\* two Q periods with the same start and different ends both contain the date,
\* the later one in the list is not chosen, and a third containing Q period
\* with an earlier start loses to them
C1_Witness ==
    /\ Returned
    /\ parse_date(transaction.date) # None
    /\ \E a, b \in Containing(parse_date(transaction.date), q_periods) :
          /\ a < b
          /\ parse_date(q_periods[a].start) = parse_date(q_periods[b].start)
          /\ q_periods[a].end # q_periods[b].end
          /\ IsWinner(a, Containing(parse_date(transaction.date), q_periods), q_periods)
          /\ updated[1][1].remanent - PTotal = q_periods[a].fixed
    /\ \E c \in Containing(parse_date(transaction.date), q_periods) :
          \E a \in Containing(parse_date(transaction.date), q_periods) :
              parse_date(q_periods[c].start) < parse_date(q_periods[a].start)

\* C2: the returned remanent is the winning Q period's fixed value (the input
\* remanent when no Q period contains the date) plus the extras of all the P
\* periods containing the date, added after the replacement and not clamped.
C2_Remanent ==
    (Returned /\ parse_date(transaction.date) # None) =>
        LET d == parse_date(transaction.date)
            M == Containing(d, q_periods)
            q_value == IF M = {} THEN transaction.remanent
                       ELSE q_periods[CHOOSE w \in M : IsWinner(w, M, q_periods)].fixed
        IN /\ Len(updated[1]) = 1
           /\ updated[1][1].remanent = q_value + PTotal
           /\ updated[1][1].date = transaction.date
           /\ updated[1][1].amount = transaction.amount
           /\ updated[1][1].ceiling = transaction.ceiling

\* two P periods and a Q period contain the date and the result is negative
C2_Witness ==
    /\ Returned
    /\ parse_date(transaction.date) # None
    /\ Cardinality(Containing(parse_date(transaction.date), p_periods)) >= 2
    /\ Containing(parse_date(transaction.date), q_periods) # {}
    /\ updated[1][1].remanent < 0

-----------------------------------------------------------------------------
(* Properties of the validators *)

\* 0 <= amount < 500000
AmountOk(t) == t.amount >= 0 /\ t.amount < MaxLimit

\* the step taken is one iteration of a validator's loop
IterationTaken ==
    /\ handler \in {"validate_transactions", "_validate"}
    /\ pc = "loop"
    /\ pc' = "loop"
    /\ LoopIndex' = LoopIndex + 1

ValidatorReturned ==
    pc = "return" /\ handler \in {"validate_transactions", "_validate"}

\* no two accepted transactions share a date text
NoSharedDate ==
    \A m, n \in 1 .. Len(valid) : valid[m].date = valid[n].date => m = n

\* C3 as stated: no two accepted transactions share a date, and among the
\* input transactions sharing a date the first occurrence is the one accepted
\* (when its amount passes) while every later one is rejected, as a duplicate
\* when its own amount passes.
C3_FirstOccurrenceWins ==
    [][IterationTaken =>
        LET t == transactions[LoopIndex] IN
        /\ NoSharedDate'
        /\ IF \E j \in 1 .. (LoopIndex - 1) : transactions[j].date = t.date
           THEN /\ valid' = valid
                /\ AmountOk(t) =>
                      invalid' = Append(invalid, InvalidTransaction(t, "Duplicate date"))
           ELSE AmountOk(t) => (valid' = Append(valid, t) /\ invalid' = invalid)]_vars

\* C3 amended: no two accepted transactions share a date, and among the input
\* transactions sharing a date whose amount is in [0, 500000) the first one
\* in the input is accepted and every later one is rejected as a duplicate.
C3_FirstValidWins ==
    [][IterationTaken =>
        LET t == transactions[LoopIndex] IN
        /\ NoSharedDate'
        /\ AmountOk(t) =>
              IF \E j \in 1 .. (LoopIndex - 1) :
                    transactions[j].date = t.date /\ AmountOk(transactions[j])
              THEN /\ invalid' = Append(invalid, InvalidTransaction(t, "Duplicate date"))
                   /\ valid' = valid
              ELSE /\ valid' = Append(valid, t)
                   /\ invalid' = invalid]_vars

\* three transactions of one date: the first has a bad amount, the second is
\* accepted and the third is rejected as its duplicate
C3_Witness ==
    /\ ValidatorReturned
    /\ Len(transactions) = 3
    /\ \A n \in 1 .. 3 : transactions[n].date = transactions[1].date
    /\ ~AmountOk(transactions[1])
    /\ AmountOk(transactions[2])
    /\ AmountOk(transactions[3])
    /\ valid = <<transactions[2]>>
    /\ Len(invalid) = 2
    /\ invalid[2] = InvalidTransaction(transactions[3], "Duplicate date")

\* C4: every validator reports amount < 0 as "Negative amount", otherwise
\* amount >= 500000 as "Exceeds max limit", otherwise a seen date as
\* "Duplicate date", and accepts nothing with a negative or too large amount.
C4_Reasons ==
    /\ \A n \in 1 .. Len(valid) : AmountOk(valid[n])
    /\ \A n \in 1 .. Len(invalid) :
          invalid[n].message =
              IF invalid[n].amount < 0 THEN "Negative amount"
              ELSE IF invalid[n].amount >= MaxLimit THEN "Exceeds max limit"
              ELSE "Duplicate date"

\* C5: the seen dates are exactly the dates of the accepted transactions; a
\* transaction is rejected as a duplicate exactly when its amount is in
\* [0, 500000) and an earlier accepted transaction has its date, and a
\* transaction is rejected for its amount whatever came before it.
C5_SeenOnlyAccepted ==
    [][IterationTaken =>
        LET t == transactions[LoopIndex]
            dup == AmountOk(t) /\ \E n \in 1 .. Len(valid) : valid[n].date = t.date
        IN
        /\ seen_dates = {valid[n].date : n \in 1 .. Len(valid)}
        /\ seen_dates' = {valid'[n].date : n \in 1 .. Len(valid')}
        /\ dup <=> /\ valid' = valid
                   /\ invalid' = Append(invalid, InvalidTransaction(t, "Duplicate date"))
        /\ ~AmountOk(t) <=>
              /\ valid' = valid
              /\ Len(invalid') = Len(invalid) + 1
              /\ invalid'[Len(invalid')].message # "Duplicate date"
        /\ (AmountOk(t) /\ ~dup) <=> (valid' = Append(valid, t) /\ invalid' = invalid)]_vars

\* a transaction rejected for its amount is followed by an accepted one of the
\* same date, whose later duplicate is rejected
C5_Witness ==
    /\ ValidatorReturned
    /\ Len(transactions) = 3
    /\ transactions[1].amount >= MaxLimit
    /\ transactions[2].date = transactions[1].date
    /\ transactions[3].date = transactions[1].date
    /\ seen_dates = {transactions[2].date}
    /\ Len(valid) = 1
    /\ Len(invalid) = 2
    /\ invalid[1].message = "Exceeds max limit"
    /\ invalid[2].message = "Duplicate date"

-----------------------------------------------------------------------------
(* Properties of the derivation and of the time horizon *)

ParseReturned == pc = "return" /\ handler \in {"parse_transactions", "_parse"}

\* C6: an expense of amount 0 gives ceiling = remanent = 0; any other gives as
\* ceiling the smallest multiple of 100 strictly greater than the amount and
\* remanent = ceiling - amount, so that a positive amount has ceiling > amount
\* and 0 < remanent <= 100; one transaction per expense, in order.
C6_Derivation ==
    ParseReturned =>
        /\ Len(transactions) = Len(expenses)
        /\ \A n \in 1 .. Len(expenses) :
              LET e == expenses[n]
                  t == transactions[n]
              IN /\ t.date = e.date
                 /\ t.amount = e.amount
                 /\ e.amount = 0 => (t.ceiling = 0 /\ t.remanent = 0)
                 /\ e.amount # 0 =>
                       /\ t.ceiling % 100 = 0
                       /\ t.ceiling > e.amount
                       /\ t.ceiling - 100 <= e.amount
                       /\ t.remanent = t.ceiling - e.amount
                 /\ e.amount > 0 => (t.remanent > 0 /\ t.remanent <= 100)
                 /\ t.ceiling - t.remanent = e.amount

\* an amount that is already a multiple of 100 gets the next multiple
C6_Witness ==
    /\ ParseReturned
    /\ Len(transactions) >= 2
    /\ transactions[1].amount > 0
    /\ transactions[1].amount % 100 = 0
    /\ transactions[1].ceiling = transactions[1].amount + 100
    /\ transactions[1].remanent = 100
    /\ transactions[2].amount = 0
    /\ transactions[2].ceiling = 0

TimeReturned == pc = "return" /\ handler = "calculate_time"

\* C7 as stated: the horizon is 60 - age below 60 and 5 otherwise, and is an
\* integer >= 5.
C7_AtLeastFive ==
    TimeReturned =>
        /\ t_years = (IF age < 60 THEN 60 - age ELSE 5)
        /\ t_years >= 5

\* C7 amended: the horizon is 60 - age below 60 and 5 otherwise; it is an
\* integer >= 1, and >= 5 exactly for the ages up to 55 and from 60 on.
C7_Horizon ==
    TimeReturned =>
        /\ t_years \in Nat
        /\ t_years >= 1
        /\ age < 60 => t_years + age = 60
        /\ age >= 60 => t_years = 5
        /\ t_years >= 5 <=> (age <= 55 \/ age >= 60)

\* an investor one year from 60 gets a horizon of one year
C7_Witness == TimeReturned /\ age = 59 /\ t_years = 1

-----------------------------------------------------------------------------
(* Properties of group_savings_by_k *)

GroupReturned == pc = "return" /\ handler = "group_savings_by_k"

\* the positions of the transactions ts counted in the period k
CountedIn(ts, k) ==
    {i \in 1 .. Len(ts) :
        /\ parse_date(ts[i].date) # None
        /\ parse_date(k.start) # None
        /\ parse_date(k.end) # None
        /\ parse_date(k.start) <= parse_date(ts[i].date)
        /\ parse_date(ts[i].date) <= parse_date(k.end)}

\* the reorderings of a list of length len
Reorderings(len) ==
    {f \in [1 .. len -> 1 .. len] : \A a, b \in 1 .. len : f[a] = f[b] => a = b}

\* C8: one bucket per K period in the order of the K list, its amount the sum
\* of the remanents of the transactions dated within [start, end] bounds
\* included, whatever the order of the transactions; a transaction with an
\* unparsable date counts nowhere.
C8_Buckets ==
    GroupReturned =>
        /\ Len(savings) = Len(k_periods)
        /\ \A n \in 1 .. Len(k_periods) :
              /\ savings[n].start = k_periods[n].start
              /\ savings[n].end = k_periods[n].end
              /\ savings[n].profits = 0
              /\ savings[n].tax_benefit = 0
              /\ savings[n].amount =
                    SumOver(CountedIn(filtered_txns, k_periods[n]),
                            [i \in 1 .. Len(filtered_txns) |-> filtered_txns[i].remanent])
        /\ \A f \in Reorderings(Len(filtered_txns)) :
              group_savings_by_k([i \in 1 .. Len(filtered_txns) |-> filtered_txns[f[i]]],
                                 k_periods) = savings

\* a transaction dated on the start of one period and on the end of another
\* counts in both, next to a transaction with an unparsable date
C8_Witness ==
    /\ GroupReturned
    /\ \E m, n \in 1 .. Len(k_periods) : \E i, j \in 1 .. Len(filtered_txns) :
          /\ m # n
          /\ parse_date(filtered_txns[i].date) = parse_date(k_periods[m].start)
          /\ parse_date(filtered_txns[i].date) = parse_date(k_periods[n].end)
          /\ parse_date(k_periods[n].start) # None
          /\ parse_date(k_periods[n].start) < parse_date(k_periods[n].end)
          /\ parse_date(k_periods[m].start) < parse_date(k_periods[m].end)
          /\ parse_date(filtered_txns[j].date) = None
          /\ savings[m].amount = filtered_txns[i].remanent
          /\ savings[n].amount # filtered_txns[i].remanent

-----------------------------------------------------------------------------
(* Properties of the /calculate pipeline *)

RECURSIVE Pick(_, _)
\* the elements of the list s at the positions in S, in the order of s
Pick(s, S) ==
    IF s = <<>> THEN <<>>
    ELSE Pick(SubSeq(s, 1, Len(s) - 1), S \ {Len(s)})
         \o (IF Len(s) \in S THEN <<s[Len(s)]>> ELSE <<>>)

\* a transaction or a rejected transaction without its remanent and message
Core(t) == [date |-> t.date, amount |-> t.amount, ceiling |-> t.ceiling]

\* a rejected transaction without its message
Snapshot(t) == Transaction(t.date, t.amount, t.ceiling, t.remanent)

MapSeq(s, Op(_)) == [n \in 1 .. Len(s) |-> Op(s[n])]

\* C9: no record aborts the batch: the pipeline always has a next step until
\* it has responded, every expense ends in exactly one of the filtered or the
\* rejected transactions, parsed = filtered + rejected, valid = filtered +
\* temporal rejections, and each stage's accepted and rejected outputs keep
\* the relative order of its input.
C9_Accounting ==
    /\ (handler = "calculate" /\ pc # "done") => ENABLED NextCalculate
    /\ (handler = "calculate" /\ pc = "done") =>
          /\ response.summary.parsed = Len(expenses)
          /\ response.summary.valid = Len(valid)
          /\ response.summary.filtered = Len(filtered_txns)
          /\ response.summary.parsed =
                response.summary.filtered + response.summary.rejected
          /\ response.summary.valid =
                response.summary.filtered + Len(invalid_from_filter)
          /\ response.rejected_transactions = invalid \o invalid_from_filter
          /\ Len(response.rejected_transactions) = response.summary.rejected
          /\ \E A \in SUBSET (1 .. Len(expenses)) :
                /\ MapSeq(valid, Core) = MapSeq(Pick(expenses, A), LAMBDA e : Core(Derive(e)))
                /\ MapSeq(invalid, Core) =
                      MapSeq(Pick(expenses, (1 .. Len(expenses)) \ A),
                             LAMBDA e : Core(Derive(e)))
          /\ \E B \in SUBSET (1 .. Len(valid)) :
                /\ MapSeq(filtered_txns, Core) = MapSeq(Pick(valid, B), Core)
                /\ MapSeq(invalid_from_filter, Snapshot) =
                      Pick(valid, (1 .. Len(valid)) \ B)
                /\ \A n \in 1 .. Len(invalid_from_filter) :
                      invalid_from_filter[n].message = "Invalid date format"

\* a batch of three expenses: one rejected by the validator, one by the
\* temporal stage and one filtered
C9_Witness ==
    /\ handler = "calculate"
    /\ pc = "done"
    /\ response.summary = [parsed |-> 3, valid |-> 2, filtered |-> 1, rejected |-> 2]
    /\ Len(invalid) = 1
    /\ Len(invalid_from_filter) = 1
    /\ expenses[1].date = 0
    /\ expenses[2].amount < 0

-----------------------------------------------------------------------------
(* Properties of the two projections *)

\* the addresses of the buckets of the call for vehicle v
Owned(v) == {proj[v].savings[n] : n \in 1 .. Len(proj[v].savings)}

\* what the call for vehicle v gives when it runs alone
Alone(v) == _compute_returns(filtered_txns, k_periods, age, wage, inflation, v = "nps")

\* the buckets of the call for vehicle v are what the call run alone has at the
\* same point: the final value for those the loop has passed, and the grouped
\* value for the others
AsAlone(v) ==
    proj[v].pc # "start" =>
        /\ Len(proj[v].savings) = Len(k_periods)
        /\ \A n \in 1 .. Len(proj[v].savings) :
              heap[proj[v].savings[n]] =
                  IF n < proj[v].n
                  THEN Alone(v).savings_by_dates[n]
                  ELSE group_savings_by_k(filtered_txns, k_periods)[n]
        /\ proj[v].pc = "done" => Result(v) = Alone(v)

\* C10: under every interleaving of the NPS and the index-fund projection
\* each has its own buckets, each result equals the result of the projection
\* run alone, every index-fund bucket has taxBenefit 0, and no step changes
\* the filtered transactions or the K list.
C10_NoInterference ==
    /\ [](handler = "_compute_returns" =>
            /\ Owned("nps") \cap Owned("index") = {}
            /\ AsAlone("nps")
            /\ AsAlone("index")
            /\ \A n \in 1 .. Len(proj["index"].savings) :
                  heap[proj["index"].savings[n]].tax_benefit = 0)
    /\ [][filtered_txns' = filtered_txns /\ k_periods' = k_periods]_vars

\* both projections are in the middle of their loops: the NPS one has set a
\* tax benefit on its first bucket and the index-fund one only a profit
C10_Witness ==
    /\ handler = "_compute_returns"
    /\ Len(k_periods) = 2
    /\ proj["nps"].pc = "loop"
    /\ proj["nps"].n = 2
    /\ proj["index"].pc = "loop"
    /\ proj["index"].n = 2
    /\ heap[proj["nps"].savings[1]].tax_benefit > 0
    /\ heap[proj["index"].savings[1]].tax_benefit = 0
    /\ heap[proj["index"].savings[1]].profits > 0
    /\ proj["index"].savings[1] < proj["nps"].savings[1]

(***************************************************************************)
(* C11: the tax schedule                                                   *)
(***************************************************************************)

TaxReturned == pc = "return" /\ handler = "calculate_tax"

\* the part of income that lies in the band (lo, hi]
Band(inc, lo, hi) == Max(0, Min(inc, hi) - lo)

\* the marginal schedule in thousandths: 10, 15, 20 and 30 percent of the bands
Schedule(inc) ==
    100 * Band(inc, 700000, 1000000) + 150 * Band(inc, 1000000, 1200000)
        + 200 * Band(inc, 1200000, 1500000) + 300 * Max(0, inc - 1500000)

\* C11: for every integer income the returned tax is the four-bracket
\* marginal schedule (0 up to 700000, then 10%, 15%, 20% and 30% of the parts
\* of income in (700000, 1000000], (1000000, 1200000], (1200000, 1500000]
\* and above 1500000), so the tax of 700000 is 0, the tax of 1600000 is
\* 150000, and no lower income pays more tax than a higher one.
C11_Schedule ==
    TaxReturned =>
        /\ tax = Schedule(income_arg)
        /\ income_arg <= 700000 => tax = 0
        /\ income_arg = 1600000 => tax = 1000 * 150000
        /\ \A lower \in Incomes :
              lower <= income_arg => calculate_tax(10 * lower) <= tax

\* the tax of 1600000 has been computed: all four brackets contribute
C11_Witness == TaxReturned /\ income_arg = 1600000 /\ tax = 1000 * 150000

(***************************************************************************)
(* C12: the tax benefit                                                    *)
(***************************************************************************)

TaxBenefitReturned == pc = "return" /\ handler = "calculate_tax_benefit"

\* the marginal schedule of an income given in tenths, in thousandths
ScheduleOfTenths(inc) ==
    10 * Band(inc, 10 * 700000, 10 * 1000000)
        + 15 * Band(inc, 10 * 1000000, 10 * 1200000)
        + 20 * Band(inc, 10 * 1200000, 10 * 1500000)
        + 30 * Max(0, inc - 10 * 1500000)

\* d = min(amount, 10% of the annual wage, 200000), in tenths
Deduction(amount, annual) ==
    IF 10 * amount <= annual /\ amount <= 200000 THEN 10 * amount
    ELSE IF annual <= 10 * 200000 THEN annual
    ELSE 10 * 200000

\* C12: for every invested amount > 0 and annual wage >= 0 the returned
\* benefit is the tax of the annual wage minus the tax of the annual wage
\* lowered by d = min(amount, 10% of the annual wage, 200000); it is never
\* negative and never above 30% of d, and for the amount 100000 and the
\* annual wage 1500000 it is 20000.
C12_Benefit ==
    TaxBenefitReturned =>
        LET d == Deduction(amount_invested_arg, annual_wage_arg)
        IN /\ benefit = ScheduleOfTenths(10 * annual_wage_arg)
                            - ScheduleOfTenths(10 * annual_wage_arg - d)
           /\ benefit = calculate_tax(10 * annual_wage_arg)
                            - calculate_tax(10 * annual_wage_arg - d)
           /\ benefit >= 0
           /\ benefit <= 30 * d
           /\ amount_invested_arg = 100000 /\ annual_wage_arg = 1500000
                 => benefit = 1000 * 20000

\* the benefit of investing 100000 on an annual wage of 1500000 has been
\* computed: the deduction is the amount, below both caps
C12_Witness ==
    /\ TaxBenefitReturned
    /\ amount_invested_arg = 100000
    /\ annual_wage_arg = 1500000
    /\ benefit = 1000 * 20000

(***************************************************************************)
(* C13: the temporal rules leave their argument alone                      *)
(***************************************************************************)

TemporalCall == pc = "call" /\ handler = "apply_temporal_rules"

Reported == pc = "reported" /\ handler = "apply_temporal_rules"

\* C13: apply_temporal_rules never modifies the transaction it is given.  On
\* success it returns a transaction whose date, amount and ceiling are the
\* input's, so it differs from the input in remanent at most; on an
\* unparsable date it returns no transaction with the error "Invalid date
\* format", and the rejected record the caller then reports carries the
\* values the transaction had before the call.
C13_ArgumentKept ==
    [][/\ TemporalCall /\ pc' = "return" =>
            /\ transaction' = transaction
            /\ parse_date(transaction.date) # None =>
                  /\ updated'[2] = NoError
                  /\ Len(updated'[1]) = 1
                  /\ updated'[1][1].date = transaction.date
                  /\ updated'[1][1].amount = transaction.amount
                  /\ updated'[1][1].ceiling = transaction.ceiling
                  /\ [updated'[1][1] EXCEPT !.remanent = transaction.remanent]
                        = transaction
            /\ parse_date(transaction.date) = None =>
                  updated' = <<<<>>, "Invalid date format">>
       /\ Returned /\ pc' = "reported" =>
            /\ transaction' = transaction
            /\ updated[2] # NoError =>
                  /\ valid' = <<>>
                  /\ invalid' = <<[date |-> transaction.date,
                                   amount |-> 250, ceiling |-> 300, remanent |-> 50,
                                   message |-> "Invalid date format"]>>
            /\ updated[2] = NoError => invalid' = <<>> /\ valid' = updated[1]
      ]_vars

\* a rule changed the remanent of the returned transaction while the caller
\* still holds the transaction with the remanent it passed in
C13_Witness ==
    /\ Reported
    /\ valid # <<>>
    /\ valid[1].remanent # transaction.remanent
    /\ transaction.remanent = 50

(***************************************************************************)
(* C14: the buckets and the totals of a projection                         *)
(***************************************************************************)

ProjectionReturned ==
    pc = "return" /\ handler \in {"process_returns", "_compute_returns"}

\* the positions of the transactions the projection keeps: process_returns
\* keeps those of the request the temporal rules accept, _compute_returns
\* is handed the kept ones
KeptPositions ==
    IF handler = "process_returns"
    THEN {i \in 1 .. Len(transactions) : parse_date(transactions[i].date) # None}
    ELSE 1 .. Len(filtered_txns)

ProjectionInput == IF handler = "process_returns" THEN transactions ELSE filtered_txns

\* C14: in the result of process_returns and of _compute_returns every bucket
\* with an amount <= 0 has profits 0 and tax benefit 0, a tax benefit is
\* computed only for the buckets with an amount > 0 of the NPS vehicle, and
\* the total amount and total ceiling are the sums over all the filtered
\* transactions, those counted in no bucket included.
C14_Buckets ==
    ProjectionReturned =>
        LET buckets == response.savings_by_dates IN
        /\ Len(buckets) = Len(k_periods)
        /\ \A n \in 1 .. Len(buckets) :
              /\ buckets[n].amount <= 0 =>
                    buckets[n].profits = 0 /\ buckets[n].tax_benefit = 0
              /\ ~(is_nps_arg /\ buckets[n].amount > 0) => buckets[n].tax_benefit = 0
              /\ is_nps_arg /\ buckets[n].amount > 0 =>
                    buckets[n].tax_benefit
                        = Round2(calculate_tax_benefit(buckets[n].amount, wage * 12))
        /\ response.transactions_total_amount =
              SumOver(KeptPositions,
                      [i \in 1 .. Len(ProjectionInput) |-> ProjectionInput[i].amount])
        /\ response.transactions_total_ceiling =
              SumOver(KeptPositions,
                      [i \in 1 .. Len(ProjectionInput) |-> ProjectionInput[i].ceiling])

\* an NPS projection of process_returns with a bucket of negative amount left
\* at zero, a bucket of positive amount with a tax benefit, and a kept
\* transaction that no bucket counts but the totals do
C14_Witness ==
    /\ ProjectionReturned
    /\ handler = "process_returns"
    /\ is_nps_arg
    /\ \E m, n \in 1 .. Len(k_periods) :
          /\ response.savings_by_dates[m].amount < 0
          /\ response.savings_by_dates[m].profits = 0
          /\ response.savings_by_dates[n].amount > 0
          /\ response.savings_by_dates[n].profits > 0
          /\ response.savings_by_dates[n].tax_benefit > 0
    /\ \E i \in KeptPositions :
          /\ \A n \in 1 .. Len(k_periods) : i \notin CountedIn(transactions, k_periods[n])
          /\ response.transactions_total_amount >= transactions[i].amount

(***************************************************************************)
(* C15: the lifecycle of an async job                                      *)
(***************************************************************************)

\* a record a finished background task leaves: completed with a result and
\* no error, or failed with an error and no result
Terminal(job) ==
    \/ job.status = "completed" /\ Len(job.result) = 1 /\ job.error = <<>>
    \/ job.status = "failed" /\ job.result = <<>> /\ Len(job.error) = 1

IsProcessing(j) == j \in DOMAIN JOBS /\ JOBS[j].status = "processing"

IsFinished(j) == j \in DOMAIN JOBS /\ Terminal(JOBS[j])

\* a step that hands a job id back to a client
Submitted(j) == j \notin DOMAIN JOBS /\ j \in DOMAIN JOBS'

\* a step in which the background task of job j ran
TaskRan(j) ==
    \E task \in background_tasks : task.job_id = j /\ task \notin background_tasks'

\* a step that answers a status poll with 404
Answered404 == job_response' # job_response /\ "path" \in DOMAIN job_response'

\* a step that answers a status poll with the job's record
AnsweredStatus == job_response' # job_response /\ "result" \in DOMAIN job_response'

\* C15: under any interleaving of submissions, background tasks and polls, a
\* job id handed back by an async endpoint is in the store as "processing"
\* with result and error null; its background task eventually replaces the
\* record, once, by "completed" (result set, error null) or "failed" (result
\* null, error set), and then the record never changes nor returns to
\* "processing"; a task writes under the key of its own job only; and a
\* poll for an id that was never submitted is answered 404 and leaves the
\* store as it was.
C15_Lifecycle ==
    /\ [][/\ \A j \in JobIds :
              /\ Submitted(j) =>
                    /\ JOBS'[j] = Processing
                    /\ job_response' = JobResponse(j, "processing")
                    /\ \E task \in background_tasks' \ background_tasks :
                          task.job_id = j
              /\ IsProcessing(j) =>
                    /\ j \in DOMAIN JOBS'
                    /\ JOBS'[j] = JOBS[j] \/ (TaskRan(j) /\ Terminal(JOBS'[j]))
                    /\ TaskRan(j) => Terminal(JOBS'[j])
              /\ IsFinished(j) =>
                    /\ j \in DOMAIN JOBS'
                    /\ JOBS'[j] = JOBS[j]
                    /\ ~TaskRan(j)
              /\ TaskRan(j) =>
                    /\ DOMAIN JOBS' = DOMAIN JOBS
                    /\ \A k \in DOMAIN JOBS \ {j} : JOBS'[k] = JOBS[k]
          /\ Answered404 =>
                /\ job_response'.path \notin DOMAIN JOBS
                /\ job_response'.status_code = 404
                /\ JOBS' = JOBS
          /\ AnsweredStatus =>
                /\ job_response'.job_id \in DOMAIN JOBS
                /\ job_response' =
                      JobStatusResponse(job_response'.job_id,
                                        JOBS[job_response'.job_id])
                /\ JOBS' = JOBS
         ]_vars
    /\ \A j \in JobIds : IsProcessing(j) ~> IsFinished(j)

\* two jobs were submitted and their tasks ran: one has completed with a
\* result, the other has failed with the text of its exception, and the last
\* poll, for an id that is never a job's, was answered 404
C15_Witness ==
    /\ handler = "jobs"
    /\ \E j, k \in DOMAIN JOBS :
          /\ JOBS[j].status = "completed"
          /\ JOBS[j].result[1].savings_by_dates[1].profits > 0
          /\ JOBS[k].status = "failed"
          /\ JOBS[k].error = <<"float division by zero">>
    /\ "path" \in DOMAIN job_response
    /\ job_response.path = 0
    /\ job_response.status_code = 404

====
